---------------------------- MODULE Spec2Model ----------------------------
(***************************************************************************)
(* Model of the pizza storefront client (client/src/App.jsx): the custom   *)
(* builder (catalog, selection, live price, add-to-cart gate), the cart    *)
(* kept by App, and the admin inventory table.                             *)
(*                                                                         *)
(* Money.  Catalog and menu prices are USD amounts with at most two        *)
(* decimals.  They are held here as integers in mills (1/1000 USD), so     *)
(* that toFixed(2) is a real rounding step (to a multiple of 10 mills).    *)
(* Rupee amounts are held in units of 1/100000 rupee: mills times          *)
(* USD_TO_INR times MARKET_ADJ, the latter in hundredths.                  *)
(*                                                                         *)
(* React.  A handler and the effects its state change triggers are one     *)
(* action: effects are flushed before the next event is handled.           *)
(* BuilderTab is a component declared inside App's body, so every render   *)
(* of App gives <BuilderTab/> a new type and React remounts CustomBuilder: *)
(* its state (opts, sel, price) is re-initialised and the catalog is       *)
(* fetched again whenever App's own state changes.                         *)
(***************************************************************************)
EXTENDS Integers, Sequences, FiniteSets, TLC

VARIABLES
    page,      \* route shown: "menu" | "build"
    opts,      \* CustomBuilder.opts: <<>> is null, <<catalog>> is loaded
    sel,       \* CustomBuilder.sel
    price,     \* CustomBuilder.price (mills)
    cart,      \* App.cart: sequence of lines
    crashed,   \* an exception escaped a state updater: the tree is unmounted
    vEdit,     \* Admin.vEdit: <<>> is null, <<inventory>> is the editable copy
    user,      \* useAuth().user: FALSE is null, TRUE is a logged-in customer
    showCheckout,  \* App.showCheckout
    placing,   \* App.placing
    payResult, \* App.payResult: [status, orderId], orderId 0 is ''
    addr,      \* App.addr
    alerted,   \* text of the alert() dialog that is open, "" when none
    pays,      \* payNow invocations in progress, oldest first:
               \* [pc, req, orderId, sessionId]
    left,      \* window.location.href was assigned: the page is gone
    inv,       \* server: stock and threshold of the variants
    orders,    \* server: status of each order, by order id
    db,        \* server process: outcome of connectDB()
    proc,      \* server process: "starting" | "listening" | "exited"
    exitCode,  \* server process: code given to process.exit, -1 while running
    sent       \* server process: responses written by the global error handler

checkoutVars == <<user, showCheckout, placing, payResult, addr, alerted, pays, left>>

serverVars == <<inv, orders>>

procVars == <<db, proc, exitCode, sent>>

vars == <<page, opts, sel, price, cart, crashed, vEdit, checkoutVars, serverVars, procVars>>

----------------------------------------------------------------------------
(* Bounds *)

MaxCart == 3        \* lines the cart may hold
MaxQty == 2         \* quantity a line may reach
MaxStock == 2       \* largest stock / threshold typed into the admin table
MaxPays == 2        \* payNow invocations in progress at once
MaxOrders == 2      \* orders the server holds
MaxListed == 3      \* orders listed in the admin console
MaxSent == 2        \* responses of the error handler that are kept

----------------------------------------------------------------------------
(* Units and program constants *)

Usd(n) == n * 1000          \* whole dollars, in mills
Cents(n) == n * 10          \* cents, in mills

USD_TO_INR == 83
MARKET_ADJ == 20            \* 0.20, in hundredths

adjToINR(usd) == usd * USD_TO_INR * MARKET_ADJ
toINRrupees(usd) == adjToINR(usd)

\* Number(x.toFixed(2)) on a non-negative amount: nearest cent.
toFixed2(m) == ((m + 5) \div 10) * 10

----------------------------------------------------------------------------
(* Strings: toLowerCase over the level strings the model draws *)

UpperToLower ==
    [s \in {"LOW", "Low", "EXTRA", "Extra", "LIGHT", "NORMAL"} |->
        CASE s \in {"LOW", "Low"} -> "low"
          [] s \in {"EXTRA", "Extra"} -> "extra"
          [] s = "LIGHT" -> "light"
          [] OTHER -> "normal"]

toLowerCase(s) == IF s \in DOMAIN UpperToLower THEN UpperToLower[s] ELSE s

\* A property read that may be undefined: "" stands for undefined (both falsy).
Get(f, k) == IF k \in DOMAIN f THEN f[k] ELSE ""

Range(s) == {s[i] : i \in DOMAIN s}

----------------------------------------------------------------------------
(* Pricing effect of CustomBuilder *)

\* arr.find(x => x.id === id): index of the first match, 0 when none.
findIndexById(arr, id) ==
    IF \E i \in DOMAIN arr : arr[i].id = id
    THEN CHOOSE i \in DOMAIN arr :
            arr[i].id = id /\ \A j \in DOMAIN arr : arr[j].id = id => i <= j
    ELSE 0

findOrFirst(arr, id) ==
    LET i == findIndexById(arr, id) IN
    IF i # 0 THEN arr[i].price ELSE IF arr = <<>> THEN 0 ELSE arr[1].price

\* find(arr, id) = arr.find(x => x.id === id)?.price || 0
find(arr, id) ==
    LET i == findIndexById(arr, id) IN IF i = 0 THEN 0 ELSE arr[i].price

\* arr.find(x => x.id === id)?.disabled, undefined read as false
findDisabled(arr, id) ==
    LET i == findIndexById(arr, id) IN IF i = 0 THEN FALSE ELSE arr[i].disabled

norm(v) == toLowerCase(IF v = "" THEN "normal" ELSE v)

multSwapped(amt) ==
    LET a == norm(amt) IN
    IF a = "low" \/ a = "light" THEN 1 ELSE IF a = "extra" THEN 2 ELSE 3

mult(amt) ==
    LET a == norm(amt) IN
    IF a = "low" \/ a = "light" THEN 1 ELSE IF a = "extra" THEN 3 ELSE 2

levelOfGlobal(s, id) ==
    IF "toppings" \in DOMAIN s.density THEN s.density["toppings"] ELSE "normal"

\* sel.toppingLevels?.[id] ?? d.toppings ?? 'normal'
levelOf(s, id) ==
    IF id \in DOMAIN s.toppingLevels THEN s.toppingLevels[id]
    ELSE IF "toppings" \in DOMAIN s.density THEN s.density["toppings"]
    ELSE "normal"

RECURSIVE vegTotalFlat(_, _, _)
vegTotalFlat(s, o, n) ==
    IF n = 0 THEN 0
    ELSE vegTotalFlat(s, o, n - 1) + find(o.veggies, s.veggies[n]) * mult("normal")

RECURSIVE vegTotal(_, _, _)
vegTotal(s, o, n) ==
    IF n = 0 THEN 0
    ELSE vegTotal(s, o, n - 1)
         + find(o.veggies, s.veggies[n]) * mult(levelOf(s, s.veggies[n]))

computeTotalNoFee(s, o) ==
    find(o.bases, s.base)
    + find(o.sauces, s.sauce) * mult(Get(s.density, "sauce"))
    + find(o.cheeses, s.cheese) * mult(Get(s.density, "cheese"))
    + vegTotal(s, o, Len(s.veggies))

computeTotal(s, o) ==
    2 * 1000 + find(o.bases, s.base)
    + find(o.sauces, s.sauce) * mult(Get(s.density, "sauce"))
    + find(o.cheeses, s.cheese) * mult(Get(s.density, "cheese"))
    + vegTotal(s, o, Len(s.veggies))

\* The value setPrice receives; the effect returns early while opts is null.
pricingEffect(s, os, old) ==
    IF os = <<>> THEN old ELSE toFixed2(computeTotal(s, os[1]))

----------------------------------------------------------------------------
(* Catalog snapshots.  A variant is [id, name, price, disabled]; disabled   *)
(* arrives from GET /api/customize with the variant.                        *)

V(id, name, p, dis) == [id |-> id, name |-> name, price |-> p, disabled |-> dis]

\* Snapshots the builder harness is run against.
CatA ==
    [bases   |-> <<V("thin", "Thin crust", Usd(100), FALSE),
                   V("pan", "Pan", Usd(120), TRUE)>>,
     sauces  |-> <<V("tomato", "Tomato", Usd(20), FALSE)>>,
     cheeses |-> <<V("mozz", "Mozzarella", Usd(30), FALSE)>>,
     veggies |-> <<V("olive", "Olives", Usd(10), FALSE),
                   V("corn", "Sweet corn", Usd(15), TRUE)>>]

CatB ==
    [bases   |-> <<V("thin", "Thin crust", Cents(525), FALSE),
                   V("pan", "Pan", Cents(600), FALSE)>>,
     sauces  |-> <<V("tomato", "Tomato", Cents(110), TRUE)>>,
     cheeses |-> <<V("mozz", "Mozzarella", Cents(175), FALSE)>>,
     veggies |-> <<V("olive", "Olives", Cents(55), FALSE),
                   V("corn", "Sweet corn", Cents(80), FALSE)>>]

CatC ==
    [bases   |-> <<V("thin", "Thin crust", Usd(8), FALSE),
                   V("pan", "Pan", Usd(9), FALSE)>>,
     sauces  |-> <<V("tomato", "Tomato", 0, FALSE)>>,
     cheeses |-> <<V("mozz", "Mozzarella", Usd(2), TRUE)>>,
     veggies |-> <<>>]

BuilderCatalogs == {CatA, CatB, CatC}

\* Responses of GET /api/customize seen by the running app (before the
\* builder's vegan filter).
AppCatA ==
    [bases   |-> <<V("thin", "Thin crust", Usd(5), FALSE),
                   V("pan", "Pan", Usd(6), TRUE)>>,
     sauces  |-> <<V("tomato", "Tomato", Usd(1), FALSE)>>,
     cheeses |-> <<V("vegan", "Vegan Cheese", Usd(3), FALSE),
                   V("mozz", "Mozzarella", Cents(150), FALSE)>>,
     veggies |-> <<V("olive", "Olives", Cents(50), FALSE)>>]

AppCatB ==
    [bases   |-> <<V("thin", "Thin crust", Cents(550), FALSE),
                   V("pan", "Pan", Usd(6), TRUE)>>,
     sauces  |-> <<V("tomato", "Tomato", Usd(1), FALSE)>>,
     cheeses |-> <<V("vegan", "Vegan Cheese", Usd(3), FALSE),
                   V("mozz", "Mozzarella", Cents(150), FALSE)>>,
     veggies |-> <<V("olive", "Olives", Cents(50), TRUE)>>]

AppCatalogs == {AppCatA, AppCatB}

\* The menu list held by Menu (GET /api/pizzas).
Pizzas == {[_id |-> "p1", price |-> Usd(8)], [_id |-> "p2", price |-> Cents(1050)]}

\* The variant inventory the server starts with, as GET
\* /api/inventory/variants returns it.
ServerInventory ==
    [bases   |-> <<[id |-> "thin", stock |-> 2, threshold |-> 1]>>,
     sauces  |-> <<[id |-> "tomato", stock |-> 1, threshold |-> 1]>>,
     cheeses |-> <<[id |-> "mozz", stock |-> 2, threshold |-> 1]>>,
     veggies |-> <<[id |-> "olive", stock |-> 0, threshold |-> 1],
                   [id |-> "corn", stock |-> 1, threshold |-> 1]>>]

----------------------------------------------------------------------------
(* CustomBuilder: state and handlers *)

EmptyLevels == [x \in {} |-> "normal"]

InitialSel ==
    [base |-> "", sauce |-> "", cheese |-> "", veggies |-> <<>>,
     density |-> [sauce |-> "normal", cheese |-> "normal", toppings |-> "normal"],
     toppingLevels |-> EmptyLevels]

\* The three buttons LevelButtons and the per-veggie row render.
LevelOptions == {"low", "normal", "extra"}

\* String(x).toLowerCase().includes('vegan')
includesVegan(s) == toLowerCase(s) \in {"vegan", "Vegan Cheese", "vegan cheese"}

\* The catalog the load effect stores: vegan cheeses filtered out.
filtered(raw) ==
    [raw EXCEPT !.cheeses =
        SelectSeq(raw.cheeses,
                  LAMBDA ch : ~includesVegan(ch.id) /\ ~includesVegan(ch.name))]

\* s.veggies.filter(x => x !== id)
without(vs, id) == SelectSeq(vs, LAMBDA x : x # id)

toggleVegKeepsLevel(s, o, id) ==
    LET i == findIndexById(o.veggies, id) IN
    IF i = 0 \/ o.veggies[i].disabled THEN s
    ELSE IF id \in Range(s.veggies)
    THEN [s EXCEPT !.veggies = without(s.veggies, id)]
    ELSE [s EXCEPT !.veggies = Append(s.veggies, id),
                   !.toppingLevels =
                       [x \in DOMAIN s.toppingLevels \cup {id} |->
                           IF x = id THEN "normal" ELSE s.toppingLevels[x]]]

toggleVeg(s, o, id) ==
    LET i == findIndexById(o.veggies, id) IN
    IF i = 0 \/ o.veggies[i].disabled THEN s
    ELSE IF id \in Range(s.veggies)
    THEN [s EXCEPT !.veggies = without(s.veggies, id),
                   !.toppingLevels =
                       [x \in DOMAIN s.toppingLevels \ {id} |-> s.toppingLevels[x]]]
    ELSE [s EXCEPT !.veggies = Append(s.veggies, id),
                   !.toppingLevels =
                       [x \in DOMAIN s.toppingLevels \cup {id} |->
                           IF x = id THEN "normal" ELSE s.toppingLevels[x]]]

\* { ...s.toppingLevels, [id]: opt }
setToppingLevel(s, id, opt) ==
    [s EXCEPT !.toppingLevels =
        [x \in DOMAIN s.toppingLevels \cup {id} |->
            IF x = id THEN opt ELSE s.toppingLevels[x]]]

\* { ...sel.density, [slot]: v }
setDensity(s, slot, v) ==
    [s EXCEPT !.density =
        [k \in DOMAIN s.density \cup {slot} |->
            IF k = slot THEN v ELSE s.density[k]]]

selectedDisabledNoVeggies(s, o) ==
    \/ (s.base # "" /\ findDisabled(o.bases, s.base))
    \/ (s.sauce # "" /\ findDisabled(o.sauces, s.sauce))
    \/ (s.cheese # "" /\ findDisabled(o.cheeses, s.cheese))

selectedDisabled(s, o) ==
    \/ (s.base # "" /\ findDisabled(o.bases, s.base))
    \/ (s.sauce # "" /\ findDisabled(o.sauces, s.sauce))
    \/ (s.cheese # "" /\ findDisabled(o.cheeses, s.cheese))
    \/ \E i \in DOMAIN s.veggies : findDisabled(o.veggies, s.veggies[i])

\* What the builder renders about unavailability: Pill and the veggie
\* buttons mark a disabled variant "(out)", title "Out of stock"; the Add to
\* cart button itself carries no text beyond its disabled attribute.
refusalSignals(s, o) ==
    LET outs(arr) == {[kind |-> "out", name |-> arr[i].id] :
                         i \in {j \in DOMAIN arr : arr[j].disabled}}
    IN outs(o.bases) \cup outs(o.sauces) \cup outs(o.cheeses) \cup outs(o.veggies)

canAddNoCheese(s, o) ==
    s.base # "" /\ s.sauce # "" /\ ~selectedDisabled(s, o)

canAdd(s, o) ==
    s.base # "" /\ s.sauce # "" /\ s.cheese # "" /\ ~selectedDisabled(s, o)

----------------------------------------------------------------------------
(* App: cart handlers.  A menu line is [pizza, quantity]; a custom line is  *)
(* [custom, price, quantity].  Indices idx are 0-based as in the source.    *)

isMenuLine(it) == "pizza" \in DOMAIN it

\* c.findIndex(x => x.pizza._id === pizza._id) walks the cart from the front;
\* reading ._id of the undefined x.pizza of a custom line throws a TypeError.
\* The first line that either matches or throws decides the outcome.
firstDeciding(c, pizza) ==
    LET hits == {i \in DOMAIN c : ~isMenuLine(c[i]) \/ c[i].pizza._id = pizza._id}
    IN IF hits = {} THEN 0
       ELSE CHOOSE i \in hits : \A j \in hits : i <= j

\* The updater of addToCart: [threw, cart].
addToCart(c, pizza) ==
    LET i == firstDeciding(c, pizza) IN
    IF i = 0
    THEN [threw |-> FALSE, cart |-> Append(c, [pizza |-> pizza, quantity |-> 1])]
    ELSE IF ~isMenuLine(c[i])
    THEN [threw |-> TRUE, cart |-> c]
    ELSE [threw |-> FALSE, cart |-> [c EXCEPT ![i].quantity = @ + 1]]

addCustomMerging(c, custom, computedPrice) ==
    IF \E i \in DOMAIN c : ~isMenuLine(c[i]) /\ c[i].custom = custom
                           /\ c[i].price = computedPrice
    THEN LET i == CHOOSE i \in DOMAIN c :
                    ~isMenuLine(c[i]) /\ c[i].custom = custom
                    /\ c[i].price = computedPrice
         IN [c EXCEPT ![i].quantity = @ + 1]
    ELSE Append(c, [custom |-> custom, price |-> computedPrice, quantity |-> 1])

addCustomToCart(c, custom, computedPrice) ==
    Append(c, [custom |-> custom, price |-> computedPrice, quantity |-> 1])

incItem(c, idx) ==
    [i \in DOMAIN c |-> IF i = idx + 1 THEN [c[i] EXCEPT !.quantity = @ + 1] ELSE c[i]]

RECURSIVE flatMapDec(_, _, _)
flatMapDec(c, idx, n) ==
    IF n = 0 THEN <<>>
    ELSE flatMapDec(c, idx, n - 1) \o
         (IF n = idx + 1
          THEN (IF c[n].quantity > 1
                THEN <<[c[n] EXCEPT !.quantity = @ - 1]>>
                ELSE <<>>)
          ELSE <<c[n]>>)

decItemKeepsZero(c, idx) ==
    [i \in DOMAIN c |-> IF i = idx + 1 THEN [c[i] EXCEPT !.quantity = @ - 1] ELSE c[i]]

decItem(c, idx) == flatMapDec(c, idx, Len(c))

removeItemAndRest(c, idx) == SubSeq(c, 1, idx)

RECURSIVE filterNotIdx(_, _, _)
filterNotIdx(c, idx, n) ==
    IF n = 0 THEN <<>>
    ELSE filterNotIdx(c, idx, n - 1) \o (IF n = idx + 1 THEN <<>> ELSE <<c[n]>>)

removeItem(c, idx) == filterNotIdx(c, idx, Len(c))

lineUnitRupeesMenuOnly(it) ==
    toINRrupees(IF isMenuLine(it) THEN it.pizza.price ELSE 0)

lineUnitRupees(it) ==
    toINRrupees(IF isMenuLine(it) THEN it.pizza.price ELSE it.price)

RECURSIVE reduceTotal(_, _)
reduceTotal(c, n) ==
    IF n = 0 THEN 0
    ELSE reduceTotal(c, n - 1) + lineUnitRupees(c[n]) * c[n].quantity

cartTotalRupees == reduceTotal(cart, Len(cart))

----------------------------------------------------------------------------
(* Actions *)

WithinBounds(c) ==
    Len(c) <= MaxCart /\ \A i \in DOMAIN c : c[i].quantity <= MaxQty

Loaded == opts # <<>>

\* App rendered again: CustomBuilder is remounted with fresh state.
BuilderRemount ==
    /\ opts' = <<>>
    /\ sel' = InitialSel
    /\ price' = 0

SetSelWithoutEffect(s) ==
    /\ sel' = s
    /\ UNCHANGED <<page, opts, price, cart, crashed, vEdit, checkoutVars, serverVars, procVars>>

\* A selection change followed by the pricing effect.
SetSel(s) ==
    /\ sel' = s
    /\ price' = pricingEffect(s, opts, price)
    /\ UNCHANGED <<page, opts, cart, crashed, vEdit, checkoutVars, serverVars, procVars>>

Navigate(p) ==
    /\ ~crashed
    /\ p # page
    /\ page' = p
    /\ BuilderRemount
    /\ UNCHANGED <<cart, crashed, vEdit, checkoutVars, serverVars, procVars>>

LoadOptions(raw) ==
    /\ ~crashed
    /\ page = "build"
    /\ ~Loaded
    /\ opts' = <<filtered(raw)>>
    /\ price' = pricingEffect(sel, opts', price)
    /\ UNCHANGED <<page, sel, cart, crashed, vEdit, checkoutVars, serverVars, procVars>>

SelectBase(i) ==
    /\ ~crashed /\ page = "build" /\ Loaded
    /\ i \in DOMAIN opts[1].bases
    /\ ~opts[1].bases[i].disabled
    /\ SetSel([sel EXCEPT !.base = opts[1].bases[i].id])

SelectSauce(i) ==
    /\ ~crashed /\ page = "build" /\ Loaded
    /\ i \in DOMAIN opts[1].sauces
    /\ ~opts[1].sauces[i].disabled
    /\ SetSel([sel EXCEPT !.sauce = opts[1].sauces[i].id])

SelectCheese(i) ==
    /\ ~crashed /\ page = "build" /\ Loaded
    /\ i \in DOMAIN opts[1].cheeses
    /\ ~opts[1].cheeses[i].disabled
    /\ SetSel([sel EXCEPT !.cheese = opts[1].cheeses[i].id])

SetSauceDensity(v) ==
    /\ ~crashed /\ page = "build" /\ Loaded
    /\ ~(findDisabled(opts[1].sauces, sel.sauce) \/ sel.sauce = "")
    /\ SetSel(setDensity(sel, "sauce", v))

SetCheeseDensity(v) ==
    /\ ~crashed /\ page = "build" /\ Loaded
    /\ ~(findDisabled(opts[1].cheeses, sel.cheese) \/ sel.cheese = "")
    /\ SetSel(setDensity(sel, "cheese", v))

ToggleVeg(i) ==
    /\ ~crashed /\ page = "build" /\ Loaded
    /\ i \in DOMAIN opts[1].veggies
    /\ ~opts[1].veggies[i].disabled
    /\ SetSel(toggleVeg(sel, opts[1], opts[1].veggies[i].id))

SetToppingLevel(k, opt) ==
    /\ ~crashed /\ page = "build" /\ Loaded
    /\ k \in DOMAIN sel.veggies
    /\ SetSel(setToppingLevel(sel, sel.veggies[k], opt))

AddCustomClick ==
    /\ ~crashed /\ page = "build" /\ Loaded
    /\ canAdd(sel, opts[1])
    /\ WithinBounds(addCustomToCart(cart, sel, price))
    /\ cart' = addCustomToCart(cart, sel, price)
    /\ BuilderRemount
    /\ UNCHANGED <<page, crashed, vEdit, checkoutVars, serverVars, procVars>>

AddToCart(p) ==
    /\ ~crashed /\ page = "menu"
    /\ LET r == addToCart(cart, p) IN
        /\ r.threw \/ WithinBounds(r.cart)
        /\ cart' = r.cart
        /\ crashed' = r.threw
    /\ UNCHANGED <<page, opts, sel, price, vEdit, checkoutVars, serverVars, procVars>>

IncItem(idx) ==
    /\ ~crashed
    /\ WithinBounds(incItem(cart, idx))
    /\ cart' = incItem(cart, idx)
    /\ BuilderRemount
    /\ UNCHANGED <<page, crashed, vEdit, checkoutVars, serverVars, procVars>>

DecItem(idx) ==
    /\ ~crashed
    /\ cart' = decItem(cart, idx)
    /\ BuilderRemount
    /\ UNCHANGED <<page, crashed, vEdit, checkoutVars, serverVars, procVars>>

RemoveItem(idx) ==
    /\ ~crashed
    /\ cart' = removeItem(cart, idx)
    /\ BuilderRemount
    /\ UNCHANGED <<page, crashed, vEdit, checkoutVars, serverVars, procVars>>

----------------------------------------------------------------------------
(* Spec: the running app, from construction *)

\* useState initial values of App's checkout state (1314-1318).
InitialAddr ==
    [name |-> "", street |-> "", city |-> "", state |-> "", zip |-> "", phone |-> ""]

IdleResult == [status |-> "idle", orderId |-> 0]

InitCheckoutState ==
    /\ showCheckout = FALSE
    /\ placing = FALSE
    /\ payResult = IdleResult
    /\ addr = InitialAddr
    /\ alerted = ""
    /\ pays = <<>>
    /\ left = FALSE

InitServer ==
    /\ inv = ServerInventory
    /\ orders = <<>>

\* The server process the client talks to: connectDB() has resolved and
\* app.listen has been called.
ServerUp ==
    /\ db = "connected"
    /\ proc = "listening"
    /\ exitCode = -1
    /\ sent = <<>>

Init ==
    /\ page = "menu"
    /\ opts = <<>>
    /\ sel = InitialSel
    /\ price = 0
    /\ cart = <<>>
    /\ crashed = FALSE
    /\ vEdit = <<>>
    /\ user = FALSE
    /\ InitCheckoutState
    /\ InitServer
    /\ ServerUp

Next ==
    \/ \E p \in {"menu", "build"} : Navigate(p)
    \/ \E raw \in AppCatalogs : LoadOptions(raw)
    \/ \E i \in 1..2 : SelectBase(i)
    \/ \E i \in 1..2 : SelectSauce(i)
    \/ \E i \in 1..2 : SelectCheese(i)
    \/ \E i \in 1..2 : ToggleVeg(i)
    \/ AddCustomClick
    \/ \E p \in Pizzas : AddToCart(p)
    \/ \E idx \in 0..Len(cart) : IncItem(idx)
    \/ \E idx \in 0..Len(cart) : DecItem(idx)
    \/ \E idx \in 0..Len(cart) : RemoveItem(idx)

Spec == Init /\ [][Next]_vars

----------------------------------------------------------------------------
(* SpecBuilder: one mount of CustomBuilder.  Pricing and the add-to-cart    *)
(* gate are functions of (sel, opts); the mount starts from any catalog of  *)
(* BuilderCatalogs and any selection of SelInputs, which also holds         *)
(* selections the buttons alone do not produce (an id the catalog lacks, a  *)
(* variant disabled in this snapshot, a missing density or override, level  *)
(* strings in other spellings).  The mount ends when the line is added and  *)
(* App renders again.                                                       *)

LevelInputs == {"low", "normal", "extra", "light", "EXTRA", "heavy"}

DensityInputs ==
    {[sauce |-> a, cheese |-> b, toppings |-> t] :
        a \in LevelInputs, b \in {"normal", "extra"}, t \in {"normal", "extra"}}
    \cup {[cheese |-> b] : b \in {"normal", "low"}}
    \cup {[sauce |-> "normal"]}

VeggieInputs == {<<>>, <<"olive">>, <<"corn">>, <<"olive", "corn">>}

\* Overrides for any subset of the selected veggies.
ToppingLevelInputs(vs) ==
    UNION {[S -> {"low", "extra"}] : S \in SUBSET Range(vs)}

InitBuilder ==
    /\ page = "build"
    /\ opts \in {<<o>> : o \in BuilderCatalogs}
    /\ \E b \in {"", "thin", "pan", "ghost"}, sa \in {"", "tomato"},
          ch \in {"", "mozz"}, vs \in VeggieInputs, d \in DensityInputs :
          \E tl \in ToppingLevelInputs(vs) :
             sel = [base |-> b, sauce |-> sa, cheese |-> ch, veggies |-> vs,
                    density |-> d, toppingLevels |-> tl]
    /\ price = pricingEffect(sel, opts, 0)
    /\ cart = <<>>
    /\ crashed = FALSE
    /\ vEdit = <<>>
    /\ user = FALSE
    /\ InitCheckoutState
    /\ InitServer
    /\ ServerUp

NextBuilder ==
    \/ \E i \in 1..2 : SelectBase(i)
    \/ \E i \in 1..2 : SelectSauce(i)
    \/ \E i \in 1..2 : SelectCheese(i)
    \/ \E v \in LevelOptions : SetSauceDensity(v)
    \/ \E v \in LevelOptions : SetCheeseDensity(v)
    \/ \E i \in 1..2 : ToggleVeg(i)
    \/ \E k \in 1..2, v \in LevelOptions : SetToppingLevel(k, v)
    \/ AddCustomClick

SpecBuilder == InitBuilder /\ [][NextBuilder]_vars

----------------------------------------------------------------------------
(* SpecAdmin: the variant inventory table of the admin console.  A row is   *)
(* [id, stock, threshold] with non-negative integers in the number inputs.  *)

InventoryKeys == {"bases", "veggies"}

\* Number(x || 0) of a number input's value.
NumberOr0(x) == IF x = 0 THEN 0 ELSE x

catTableDisabledLeq(r) == NumberOr0(r.stock) <= NumberOr0(r.threshold)

\* const disabled = Number(r.stock||0) < Number(r.threshold||0)
catTableDisabled(r) == NumberOr0(r.stock) < NumberOr0(r.threshold)

\* The badge CatTable renders for a row.
badge(r) == IF catTableDisabled(r) THEN "Disabled (stock<threshold)" ELSE "Enabled"

LoadVariantInv ==
    /\ vEdit = <<>>
    /\ vEdit' = <<inv>>
    /\ UNCHANGED <<page, opts, sel, price, cart, crashed, checkoutVars, serverVars, procVars>>

EditStock(key, i, v) ==
    /\ vEdit # <<>>
    /\ i \in DOMAIN vEdit[1][key]
    /\ vEdit' = <<[vEdit[1] EXCEPT ![key][i].stock = v]>>
    /\ UNCHANGED <<page, opts, sel, price, cart, crashed, checkoutVars, serverVars, procVars>>

EditThreshold(key, i, v) ==
    /\ vEdit # <<>>
    /\ i \in DOMAIN vEdit[1][key]
    /\ vEdit' = <<[vEdit[1] EXCEPT ![key][i].threshold = v]>>
    /\ UNCHANGED <<page, opts, sel, price, cart, crashed, checkoutVars, serverVars, procVars>>

NextAdmin ==
    \/ LoadVariantInv
    \/ \E key \in InventoryKeys, i \in 1..2, v \in 0..MaxStock : EditStock(key, i, v)
    \/ \E key \in InventoryKeys, i \in 1..2, v \in 0..MaxStock : EditThreshold(key, i, v)

SpecAdmin == Init /\ [][NextAdmin]_vars

----------------------------------------------------------------------------
(* Server: the pricing engine run at order creation (routes/orders and      *)
(* routes/payments, mounted by server.js).  A composition arrives as the    *)
(* client posts it, the custom object of a cart line.                       *)

\* low|light -> 1, extra -> 3, anything else -> 2
serverMult(level) ==
    IF level = "low" \/ level = "light" THEN 1
    ELSE IF level = "extra" THEN 3
    ELSE 2

\* The price of the variant with this id, 0 if unmatched.
serverLookup(arr, id) ==
    IF \E i \in DOMAIN arr : arr[i].id = id
    THEN arr[CHOOSE i \in DOMAIN arr :
                arr[i].id = id /\ \A j \in DOMAIN arr : arr[j].id = id => i <= j].price
    ELSE 0

\* The veggie's own override if present, else the global topping density,
\* else normal.
serverLevel(c, id) ==
    IF id \in DOMAIN c.toppingLevels THEN c.toppingLevels[id]
    ELSE IF "toppings" \in DOMAIN c.density THEN c.density["toppings"]
    ELSE "normal"

RECURSIVE serverVeggieTotal(_, _, _)
serverVeggieTotal(c, catalog, n) ==
    IF n = 0 THEN 0
    ELSE serverVeggieTotal(c, catalog, n - 1)
         + serverLookup(catalog.veggies, c.veggies[n])
           * serverMult(serverLevel(c, c.veggies[n]))

\* Half-up at the cent boundary.
serverRound2(m) == ((m + 5) \div 10) * 10

\* Steps 1-7 of the custom-composition pricing algorithm.
serverPrice(c, catalog) ==
    serverRound2(
        Usd(2) + serverLookup(catalog.bases, c.base)
        + serverLookup(catalog.sauces, c.sauce)
          * serverMult(IF "sauce" \in DOMAIN c.density THEN c.density["sauce"] ELSE "")
        + serverLookup(catalog.cheeses, c.cheese)
          * serverMult(IF "cheese" \in DOMAIN c.density THEN c.density["cheese"] ELSE "")
        + serverVeggieTotal(c, catalog, Len(c.veggies)))

----------------------------------------------------------------------------
(* App: checkout.  payNow is an async function: an invocation in progress   *)
(* is a record of pays, pc being the await it is at                         *)
(*   "creating"  await api.payment.checkout(...)                            *)
(*   "gateway"   await cashfreeRef.current.checkout(...)                    *)
(*   "verify"    await api.payment.verify({ orderId })                      *)
(* req the request body in flight while creating (<<>> afterwards) and      *)
(* orderId the id read from the response.  The record is dropped when the   *)
(* finally block has run.  alert() blocks the page until it is dismissed:   *)
(* no handler and no continuation runs while the dialog is open.            *)

\* Strings typed into the address form: trimmed length, and whether the
\* trimmed string matches /^[1-9][0-9]{5}$/ and /^[6-9]\d{9}$/.
StrInfo ==
    [s \in {"", " J ", "Jo", "12 MG Road", "Pune", "MH",
            "411001", "011001", "9876543210", "5876543210"} |->
        CASE s = "" -> [len |-> 0, zip |-> FALSE, phone |-> FALSE]
          [] s = " J " -> [len |-> 1, zip |-> FALSE, phone |-> FALSE]
          [] s = "Jo" -> [len |-> 2, zip |-> FALSE, phone |-> FALSE]
          [] s = "12 MG Road" -> [len |-> 10, zip |-> FALSE, phone |-> FALSE]
          [] s = "Pune" -> [len |-> 4, zip |-> FALSE, phone |-> FALSE]
          [] s = "MH" -> [len |-> 2, zip |-> FALSE, phone |-> FALSE]
          [] s = "411001" -> [len |-> 6, zip |-> TRUE, phone |-> FALSE]
          [] s = "011001" -> [len |-> 6, zip |-> FALSE, phone |-> FALSE]
          [] s = "9876543210" -> [len |-> 10, zip |-> FALSE, phone |-> TRUE]
          [] OTHER -> [len |-> 10, zip |-> FALSE, phone |-> FALSE]]

validators(field, v) ==
    CASE field = "name" -> StrInfo[v].len >= 2
      [] field = "street" -> StrInfo[v].len >= 5
      [] field = "city" -> StrInfo[v].len >= 2
      [] field = "state" -> StrInfo[v].len >= 2
      [] field = "zip" -> StrInfo[v].zip
      [] OTHER -> StrInfo[v].phone

isAddressValid(a) ==
    /\ validators("name", a.name) /\ validators("street", a.street)
    /\ validators("city", a.city) /\ validators("state", a.state)
    /\ validators("zip", a.zip) /\ validators("phone", a.phone)

\* Intl.NumberFormat('en-IN', {currency, maximumFractionDigits: 0}): the
\* amount rounded to whole rupees, half away from zero; the result is the
\* number the formatted text shows.
formatINR(n) == (n + 50000) \div 100000

formatINRfromRupees(r) == formatINR(r)

inrNumber(usd) == adjToINR(usd)

\* cart.reduce((s, it) => s + (it.pizza ? it.pizza.price : it.price) * it.quantity, 0)
RECURSIVE reduceUsd(_, _)
reduceUsd(c, n) ==
    IF n = 0 THEN 0
    ELSE reduceUsd(c, n - 1)
         + (IF isMenuLine(c[n]) THEN c[n].pizza.price ELSE c[n].price) * c[n].quantity

cartUsdTotal(c) == reduceUsd(c, Len(c))

cartInrTotal(c) == inrNumber(cartUsdTotal(c))

\* cart.map(c => c.pizza ? {pizza: c.pizza._id, quantity} : {custom, quantity})
payItems(c) ==
    [n \in DOMAIN c |->
        IF isMenuLine(c[n])
        THEN [pizza |-> c[n].pizza._id, quantity |-> c[n].quantity]
        ELSE [custom |-> c[n].custom, quantity |-> c[n].quantity]]

Live == ~crashed /\ ~left /\ alerted = ""

\* The user closes the alert() dialog.
DismissAlert ==
    /\ alerted # ""
    /\ alerted' = ""
    /\ UNCHANGED <<page, opts, sel, price, cart, crashed, vEdit, user,
                   showCheckout, placing, payResult, addr, pays, left, serverVars, procVars>>

\* The address form is on screen: the modal is open and shows no result.
FormShown == showCheckout /\ payResult.status = "idle"


\* Login's button handler on success: setUser(u), nav('/').
Login ==
    /\ Live /\ ~user
    /\ user' = TRUE
    /\ page' = "home"
    /\ BuilderRemount
    /\ UNCHANGED <<cart, crashed, vEdit, showCheckout, placing, payResult, addr,
                   alerted, pays, left, serverVars, procVars>>

\* onLogout, api.logout() having resolved.
OnLogout ==
    /\ Live /\ user
    /\ user' = FALSE
    /\ BuilderRemount
    /\ UNCHANGED <<page, cart, crashed, vEdit, showCheckout, placing, payResult,
                   addr, alerted, pays, left, serverVars, procVars>>

\* The cart panel is rendered and not under the checkout overlay.
CartShown == page \in {"menu", "build"} /\ ~showCheckout

\* The Checkout button of the cart panel (disabled on an empty cart).
OpenCheckout ==
    /\ Live /\ CartShown /\ cart # <<>>
    /\ IF ~user
       THEN /\ alerted' = "Login first"
            /\ UNCHANGED <<opts, sel, price, addr, placing, payResult, showCheckout>>
       ELSE /\ addr' = InitialAddr
            /\ placing' = FALSE
            /\ payResult' = IdleResult
            /\ showCheckout' = TRUE
            /\ BuilderRemount
            /\ UNCHANGED alerted
    /\ UNCHANGED <<page, cart, crashed, vEdit, user, pays, left, serverVars, procVars>>

\* The Cancel button of the address form.
CancelCheckout ==
    /\ Live /\ FormShown
    /\ showCheckout' = FALSE
    /\ BuilderRemount
    /\ UNCHANGED <<page, cart, crashed, vEdit, user, placing, payResult, addr,
                   alerted, pays, left, serverVars, procVars>>

\* onClose of the PaymentStatus shown in the modal.
ClosePayStatus ==
    /\ Live /\ showCheckout /\ payResult.status \in {"success", "error"}
    /\ showCheckout' = FALSE
    /\ BuilderRemount
    /\ UNCHANGED <<page, cart, crashed, vEdit, user, placing, payResult, addr,
                   alerted, pays, left, serverVars, procVars>>

\* onChange of one input of the address form.
EditAddr(field, v) ==
    /\ Live /\ FormShown
    /\ addr' = [addr EXCEPT ![field] = v]
    /\ addr' # addr
    /\ BuilderRemount
    /\ UNCHANGED <<page, cart, crashed, vEdit, user, showCheckout, placing,
                   payResult, alerted, pays, left, serverVars, procVars>>

\* Submit of the address form with the Pay now button enabled: payNow runs
\* up to its first await, the order-creation request.
PayNowClick ==
    /\ Live /\ FormShown
    /\ ~(placing \/ Len(cart) = 0 \/ ~isAddressValid(addr))
    /\ Len(pays) < MaxPays
    /\ pays' = Append(pays,
                      [pc |-> "creating",
                       req |-> <<[items |-> payItems(cart), currency |-> "INR",
                                  amount |-> cartInrTotal(cart)]>>,
                       orderId |-> 0, sessionId |-> 0])
    /\ UNCHANGED <<page, opts, sel, price, cart, crashed, vEdit, user,
                   showCheckout, placing, payResult, addr, alerted, left,
                   serverVars, procVars>>


\* Responses of POST /api/payments/checkout as payNow reads them: the call
\* rejects, or resolves with or without a session id, an order id and a
\* hosted-checkout link.
CheckoutResponses ==
    {[throws |-> TRUE, session |-> FALSE, order |-> FALSE, link |-> FALSE],
     [throws |-> FALSE, session |-> TRUE, order |-> TRUE, link |-> FALSE],
     [throws |-> FALSE, session |-> TRUE, order |-> TRUE, link |-> TRUE],
     [throws |-> FALSE, session |-> FALSE, order |-> TRUE, link |-> TRUE],
     [throws |-> FALSE, session |-> FALSE, order |-> FALSE, link |-> FALSE]}

\* App renders again when a state setter changed a value.
Rerender(changed) ==
    IF changed THEN BuilderRemount ELSE UNCHANGED <<opts, sel, price>>

\* The finally block of invocation i: setPlacing(false).
Finished(i) ==
    /\ pays' = SubSeq(pays, 1, i - 1) \o SubSeq(pays, i + 1, Len(pays))
    /\ placing' = FALSE

\* The payment session handle the gateway issued for order oid; 0 is none.
SessionOf(oid) == oid

CheckoutRespondsIgnoringFailure(i, resp, sdk) ==
    /\ Live /\ i \in DOMAIN pays /\ pays[i].pc = "creating"
    /\ resp.order => Len(orders) < MaxOrders
    /\ orders' = IF resp.order THEN Append(orders, "payment_pending") ELSE orders
    /\ LET oid == IF resp.order THEN Len(orders) + 1 ELSE 0 IN
       IF ~resp.throws /\ (~resp.session \/ ~resp.order)
       THEN /\ IF resp.link
               THEN left' = TRUE /\ UNCHANGED alerted
               ELSE alerted' = "Missing payment_session_id or order_id"
                    /\ UNCHANGED left
            /\ Finished(i)
       ELSE IF ~resp.throws /\ ~sdk
       THEN /\ IF resp.link
               THEN left' = TRUE /\ UNCHANGED alerted
               ELSE alerted' = "Payment SDK not available" /\ UNCHANGED left
            /\ Finished(i)
       ELSE /\ placing' = TRUE
            /\ pays' = [pays EXCEPT ![i] = [pc |-> "gateway", req |-> <<>>,
                                            orderId |-> oid,
                                            sessionId |-> SessionOf(oid)]]
            /\ UNCHANGED <<alerted, left>>
    /\ Rerender(placing' # placing)
    /\ UNCHANGED <<page, cart, crashed, vEdit, user, showCheckout, payResult,
                   addr, inv,
                   procVars>>

\* api.payment.checkout settles for invocation i; sdk tells whether
\* cashfreeRef.current is set.  The server has created an order when the
\* response carries an order id.
CheckoutResponds(i, resp, sdk) ==
    /\ Live /\ i \in DOMAIN pays /\ pays[i].pc = "creating"
    /\ resp.order => Len(orders) < MaxOrders
    /\ orders' = IF resp.order THEN Append(orders, "payment_pending") ELSE orders
    /\ LET oid == IF resp.order THEN Len(orders) + 1 ELSE 0 IN
       IF resp.throws
       THEN /\ alerted' = "Could not start payment. Check console for details."
            /\ Finished(i)
            /\ UNCHANGED left
       ELSE IF ~resp.session \/ ~resp.order
       THEN /\ IF resp.link
               THEN left' = TRUE /\ UNCHANGED alerted
               ELSE alerted' = "Missing payment_session_id or order_id"
                    /\ UNCHANGED left
            /\ Finished(i)
       ELSE IF ~sdk
       THEN /\ IF resp.link
               THEN left' = TRUE /\ UNCHANGED alerted
               ELSE alerted' = "Payment SDK not available" /\ UNCHANGED left
            /\ Finished(i)
       ELSE /\ placing' = TRUE
            /\ pays' = [pays EXCEPT ![i] = [pc |-> "gateway", req |-> <<>>,
                                            orderId |-> oid,
                                            sessionId |-> SessionOf(oid)]]
            /\ UNCHANGED <<alerted, left>>
    /\ Rerender(placing' # placing)
    /\ UNCHANGED <<page, cart, crashed, vEdit, user, showCheckout, payResult,
                   addr, inv,
                   procVars>>

GatewayRespondsVerifiesAnyway(i, r) ==
    /\ Live /\ i \in DOMAIN pays /\ pays[i].pc = "gateway"
    /\ CASE r \in {"ok", "error"} ->
              /\ pays' = [pays EXCEPT ![i].pc = "verify"]
              /\ UNCHANGED <<placing, payResult, alerted>>
         [] OTHER ->
              /\ alerted' = "Could not start payment. Check console for details."
              /\ Finished(i)
              /\ UNCHANGED payResult
    /\ Rerender(placing' # placing \/ payResult' # payResult)
    /\ UNCHANGED <<page, cart, crashed, vEdit, user, showCheckout, addr, left,
                   serverVars, procVars>>

\* cashfreeRef.current.checkout({paymentSessionId: sessionId}) settles for
\* invocation i.
GatewayResponds(i, r) ==
    /\ Live /\ i \in DOMAIN pays /\ pays[i].pc = "gateway"
    /\ CASE r = "ok" ->
              /\ pays' = [pays EXCEPT ![i].pc = "verify"]
              /\ UNCHANGED <<placing, payResult, alerted>>
         [] r = "error" ->
              /\ payResult' = [status |-> "error", orderId |-> pays[i].orderId]
              /\ Finished(i)
              /\ UNCHANGED alerted
         [] OTHER ->
              /\ alerted' = "Could not start payment. Check console for details."
              /\ Finished(i)
              /\ UNCHANGED payResult
    /\ Rerender(placing' # placing \/ payResult' # payResult)
    /\ UNCHANGED <<page, cart, crashed, vEdit, user, showCheckout, addr, left,
                   serverVars, procVars>>

VerifyRespondsAlwaysClears(i, v) ==
    /\ Live /\ i \in DOMAIN pays /\ pays[i].pc = "verify"
    /\ cart' = <<>>
    /\ IF v = "success"
       THEN /\ payResult' = [status |-> "success", orderId |-> pays[i].orderId]
            /\ orders' = [orders EXCEPT ![pays[i].orderId] =
                              IF @ = "payment_pending" THEN "order_received" ELSE @]
       ELSE /\ payResult' = [status |-> "error", orderId |-> pays[i].orderId]
            /\ UNCHANGED orders
    /\ Finished(i)
    /\ Rerender(TRUE)
    /\ UNCHANGED <<page, crashed, vEdit, user, showCheckout, addr, alerted,
                   left, inv,
                   procVars>>

\* api.payment.verify settles for invocation i.  On success the server has
\* moved the order out of payment_pending.
VerifyResponds(i, v) ==
    /\ Live /\ i \in DOMAIN pays /\ pays[i].pc = "verify"
    /\ IF v = "success"
       THEN /\ cart' = <<>>
            /\ payResult' = [status |-> "success", orderId |-> pays[i].orderId]
            /\ orders' = [orders EXCEPT ![pays[i].orderId] =
                              IF @ = "payment_pending" THEN "order_received" ELSE @]
       ELSE /\ payResult' = [status |-> "error", orderId |-> pays[i].orderId]
            /\ UNCHANGED <<cart, orders>>
    /\ Finished(i)
    /\ Rerender(placing' # placing \/ payResult' # payResult \/ cart' # cart)
    /\ UNCHANGED <<page, crashed, vEdit, user, showCheckout, addr, alerted,
                   left, inv,
                   procVars>>

----------------------------------------------------------------------------
(* SpecCheckout: a session with a cart already filled, through login,       *)
(* logout, cart edits and checkout.                                         *)

\* The composition and price of a custom line built against AppCatA.
CustomLine ==
    LET c == [InitialSel EXCEPT !.base = "thin", !.sauce = "tomato", !.cheese = "mozz"]
    IN [custom |-> c, price |-> pricingEffect(c, <<filtered(AppCatA)>>, 0),
        quantity |-> 1]

CartInputs ==
    {<<[pizza |-> [_id |-> "p1", price |-> Usd(8)], quantity |-> 1]>>,
     <<[pizza |-> [_id |-> "p2", price |-> Cents(1050)], quantity |-> 1], CustomLine>>}

\* Edits of the address form the model draws: the form is filled from the
\* top, one field after the other, and the phone number may be retyped.
AddrFields == <<"name", "street", "city", "state", "zip", "phone">>

AddrEdits ==
    {<<1, "Jo">>, <<2, "12 MG Road">>, <<3, "Pune">>, <<4, "MH">>,
     <<5, "411001">>, <<6, "9876543210">>, <<6, "5876543210">>}

FilledBefore(k) == \A j \in 1..(k - 1) : addr[AddrFields[j]] # ""

InitCheckout ==
    /\ page = "menu"
    /\ opts = <<>>
    /\ sel = InitialSel
    /\ price = 0
    /\ cart \in CartInputs
    /\ crashed = FALSE
    /\ vEdit = <<>>
    /\ user = TRUE
    /\ InitCheckoutState
    /\ InitServer
    /\ ServerUp

NextCheckout ==
    \/ Login
    \/ OnLogout
    \/ Live /\ Navigate("menu")
    \/ DismissAlert
    \/ OpenCheckout
    \/ CancelCheckout
    \/ ClosePayStatus
    \/ \E e \in AddrEdits :
          /\ FilledBefore(e[1])
          /\ e[1] < 6 => addr[AddrFields[e[1]]] = ""
          /\ EditAddr(AddrFields[e[1]], e[2])
    \/ PayNowClick
    \/ \E i \in 1..MaxPays, resp \in CheckoutResponses, sdk \in BOOLEAN :
          CheckoutResponds(i, resp, sdk)
    \/ \E i \in 1..MaxPays, r \in {"ok", "error", "throws"} : GatewayResponds(i, r)
    \/ \E i \in 1..MaxPays, v \in {"success", "failure", "throws"} :
          VerifyResponds(i, v)
    \/ \E idx \in 0..Len(cart) : Live /\ CartShown /\ IncItem(idx)
    \/ \E idx \in 0..Len(cart) : Live /\ CartShown /\ DecItem(idx)
    \/ \E idx \in 0..Len(cart) : Live /\ CartShown /\ RemoveItem(idx)

SpecCheckout == InitCheckout /\ [][NextCheckout]_vars

----------------------------------------------------------------------------
(* SpecFresh: a customer's builder and the admin console working against    *)
(* the same server.  The server keeps stock and threshold per variant and   *)
(* derives disabled = stock < threshold when it answers GET /api/customize. *)

\* Name and price of the variants the server holds.
VariantInfo ==
    [id \in {"thin", "tomato", "mozz", "olive", "corn"} |->
        CASE id = "thin" -> [name |-> "Thin crust", price |-> Usd(5)]
          [] id = "tomato" -> [name |-> "Tomato", price |-> Usd(1)]
          [] id = "mozz" -> [name |-> "Mozzarella", price |-> Cents(150)]
          [] id = "olive" -> [name |-> "Olives", price |-> Cents(50)]
          [] OTHER -> [name |-> "Sweet corn", price |-> Cents(80)]]

\* The response of GET /api/customize for inventory i.
customizeResponse(i) ==
    [k \in DOMAIN i |->
        [n \in DOMAIN i[k] |->
            V(i[k][n].id, VariantInfo[i[k][n].id].name,
              VariantInfo[i[k][n].id].price,
              i[k][n].stock < i[k][n].threshold)]]

\* The body saveVariantInv posts: {id, stock, threshold} per row.
savedRows(rows) ==
    [n \in DOMAIN rows |->
        [id |-> rows[n].id, stock |-> NumberOr0(rows[n].stock),
         threshold |-> NumberOr0(rows[n].threshold)]]

\* saveVariantInv: the server stores the posted rows, then loadVariantInv
\* reads them back.
SaveVariantInv ==
    /\ vEdit # <<>>
    /\ inv' = [k \in DOMAIN vEdit[1] |-> savedRows(vEdit[1][k])]
    /\ vEdit' = <<inv'>>
    /\ UNCHANGED <<page, opts, sel, price, cart, crashed, checkoutVars, orders,
                   procVars>>

InitFresh ==
    /\ page = "build"
    /\ opts = <<>>
    /\ sel = InitialSel
    /\ price = 0
    /\ cart = <<>>
    /\ crashed = FALSE
    /\ vEdit = <<>>
    /\ user = TRUE
    /\ InitCheckoutState
    /\ InitServer
    /\ ServerUp

NextFresh ==
    \/ LoadVariantInv
    \/ \E i \in 1..2, v \in 0..MaxStock : EditStock("veggies", i, v)
    \/ SaveVariantInv
    \/ LoadOptions(customizeResponse(inv))
    \/ SelectBase(1)
    \/ SelectSauce(1)
    \/ SelectCheese(1)
    \/ \E i \in 1..2 : ToggleVeg(i)
    \/ cart = <<>> /\ AddCustomClick    \* the session adds one line

SpecFresh == InitFresh /\ [][NextFresh]_vars

----------------------------------------------------------------------------
(* SpecOrders: the order list of the admin console.  Every order is shown   *)
(* with the same four status buttons, whatever its status; the server       *)
(* stores the status it is sent when it is one of the enumerated values.    *)

Statuses ==
    {"payment_pending", "order_received", "in_kitchen", "sent_to_delivery",
     "delivered"}

\* The status literals of the four buttons.
StatusButtons == {"order_received", "in_kitchen", "sent_to_delivery", "delivered"}

\* Position of a status in the order the workflow lists them.
StatusRank(s) ==
    CASE s = "payment_pending" -> 0
      [] s = "order_received" -> 1
      [] s = "in_kitchen" -> 2
      [] s = "sent_to_delivery" -> 3
      [] OTHER -> 4

\* The server's handling of {status} applied to order o.
serverOrderStatus(os, o, s) ==
    IF s \in Statuses /\ o \in DOMAIN os THEN [os EXCEPT ![o] = s] ELSE os

AdminOrderStatusForwardOnly(o, s) ==
    /\ o \in DOMAIN orders
    /\ s \in StatusButtons
    /\ StatusRank(s) > StatusRank(orders[o])
    /\ orders' = serverOrderStatus(orders, o, s)
    /\ UNCHANGED <<page, opts, sel, price, cart, crashed, vEdit, checkoutVars, inv,
                   procVars>>

\* onClick of a status button of order o: api.admin.orderStatus(o._id, {status}).
AdminOrderStatus(o, s) ==
    /\ o \in DOMAIN orders
    /\ s \in StatusButtons
    /\ orders' = serverOrderStatus(orders, o, s)
    /\ UNCHANGED <<page, opts, sel, price, cart, crashed, vEdit, checkoutVars, inv,
                   procVars>>

\* Orders as checkouts leave them: created payment_pending, moved on by a
\* successful verification.
InitOrders ==
    /\ page = "menu"
    /\ opts = <<>>
    /\ sel = InitialSel
    /\ price = 0
    /\ cart = <<>>
    /\ crashed = FALSE
    /\ vEdit = <<>>
    /\ user = TRUE
    /\ InitCheckoutState
    /\ inv = ServerInventory
    /\ \E n \in 1..MaxListed :
          orders \in [1..n -> {"payment_pending", "order_received"}]
    /\ ServerUp

NextOrders ==
    \E o \in 1..MaxListed, s \in Statuses : AdminOrderStatus(o, s)

SpecOrders == InitOrders /\ [][NextOrders]_vars

----------------------------------------------------------------------------
(* SpecServer: the server process of server/src/server.js, from start-up:   *)
(* connectDB().then(listen).catch(exit), and the global error handler that  *)
(* answers the errors the routes pass to next(err).                         *)

\* x || d on a status code; 0 stands for undefined as well (both falsy).
orElse(x, d) == IF x = 0 THEN d ELSE x

errorHandlerStatusCodeFirst(err) ==
    LET isValidation == err.name = "ValidationError"
        code == orElse(err.statusCode, IF isValidation THEN 400 ELSE 500)
    IN [status |-> code,
        message |-> IF err.message # "" THEN err.message
                    ELSE IF isValidation THEN "Validation error" ELSE "Server error",
        logged |-> code >= 500]

\* The global error handler: the response it writes, and whether it logs.
errorHandler(err) ==
    LET isValidation == err.name = "ValidationError"
        code == IF isValidation THEN 400 ELSE orElse(err.statusCode, 500)
    IN [status |-> code,
        message |-> IF err.message # "" THEN err.message
                    ELSE IF isValidation THEN "Validation error" ELSE "Server error",
        logged |-> code >= 500]

\* Errors a route may pass on: [name, statusCode, message], statusCode 0 and
\* message "" standing for a property the error does not carry.
ErrorInputs ==
    [name : {"ValidationError", "Error"},
     statusCode : {0, 400, 404, 500, 503},
     message : {"", "boom"}]

\* The promise connectDB() returned resolves.
ConnectResolves ==
    /\ db = "connecting"
    /\ db' = "connected"
    /\ UNCHANGED <<page, opts, sel, price, cart, crashed, vEdit, checkoutVars,
                   serverVars, proc, exitCode, sent>>

\* The promise connectDB() returned rejects.
ConnectRejects ==
    /\ db = "connecting"
    /\ db' = "failed"
    /\ UNCHANGED <<page, opts, sel, price, cart, crashed, vEdit, checkoutVars,
                   serverVars, proc, exitCode, sent>>

ThenListenUnawaited(ok) ==
    /\ db \in {"connecting", "connected"} /\ proc = "starting"
    /\ IF ok
       THEN proc' = "listening" /\ UNCHANGED exitCode
       ELSE proc' = "exited" /\ exitCode' = 1
    /\ UNCHANGED <<page, opts, sel, price, cart, crashed, vEdit, checkoutVars,
                   serverVars, db, sent>>

\* The .then callback: app.listen(PORT).  When the call throws (a PORT that
\* is no port number) the rejection reaches the .catch callback.
ThenListen(ok) ==
    /\ db = "connected" /\ proc = "starting"
    /\ IF ok
       THEN proc' = "listening" /\ UNCHANGED exitCode
       ELSE proc' = "exited" /\ exitCode' = 1
    /\ UNCHANGED <<page, opts, sel, price, cart, crashed, vEdit, checkoutVars,
                   serverVars, db, sent>>

\* The .catch callback after a rejection of connectDB(): process.exit(1).
CatchExit ==
    /\ db = "failed" /\ proc = "starting"
    /\ proc' = "exited"
    /\ exitCode' = 1
    /\ UNCHANGED <<page, opts, sel, price, cart, crashed, vEdit, checkoutVars,
                   serverVars, db, sent>>

\* A route of the listening server passes err to next(err).
HandleError(err) ==
    /\ proc = "listening"
    /\ Len(sent) < MaxSent
    /\ sent' = Append(sent, [err |-> err, res |-> errorHandler(err)])
    /\ UNCHANGED <<page, opts, sel, price, cart, crashed, vEdit, checkoutVars,
                   serverVars, db, proc, exitCode>>

InitProcess ==
    /\ page = "menu"
    /\ opts = <<>>
    /\ sel = InitialSel
    /\ price = 0
    /\ cart = <<>>
    /\ crashed = FALSE
    /\ vEdit = <<>>
    /\ user = FALSE
    /\ InitCheckoutState
    /\ InitServer
    /\ db = "connecting"
    /\ proc = "starting"
    /\ exitCode = -1
    /\ sent = <<>>

NextServer ==
    \/ ConnectResolves
    \/ ConnectRejects
    \/ \E ok \in BOOLEAN : ThenListen(ok)
    \/ CatchExit
    \/ \E err \in ErrorInputs : HandleError(err)

\* Promise callbacks are run once their promise has settled.
SpecServer ==
    /\ InitProcess
    /\ [][NextServer]_vars
    /\ WF_vars(CatchExit)
    /\ WF_vars(\E ok \in BOOLEAN : ThenListen(ok))

----------------------------------------------------------------------------
(* SpecMount: one mount of CustomBuilder from its construction, through the *)
(* catalog load and the builder's buttons.                                  *)

InitMount ==
    /\ page = "build"
    /\ opts = <<>>
    /\ sel = InitialSel
    /\ price = 0
    /\ cart = <<>>
    /\ crashed = FALSE
    /\ vEdit = <<>>
    /\ user = FALSE
    /\ InitCheckoutState
    /\ InitServer
    /\ ServerUp

NextMount ==
    \/ \E raw \in BuilderCatalogs : LoadOptions(raw)
    \/ \E i \in 1..2 : SelectBase(i)
    \/ \E i \in 1..2 : SelectSauce(i)
    \/ \E i \in 1..2 : SelectCheese(i)
    \/ \E v \in LevelOptions : SetSauceDensity(v)
    \/ \E v \in LevelOptions : SetCheeseDensity(v)
    \/ \E i \in 1..2 : ToggleVeg(i)
    \/ \E k \in 1..2, v \in LevelOptions : SetToppingLevel(k, v)

SpecMount == InitMount /\ [][NextMount]_vars

----------------------------------------------------------------------------
(* Properties *)

\* Price of the catalog variant with this id, 0 when the catalog has none.
PriceOf(arr, id) ==
    IF \E i \in DOMAIN arr : arr[i].id = id
    THEN (CHOOSE v \in Range(arr) : v.id = id).price
    ELSE 0

\* The level a selected veggie is charged at: its own override if present,
\* else the global topping density, else normal.
ChargedLevel(s, id) ==
    IF id \in DOMAIN s.toppingLevels THEN s.toppingLevels[id]
    ELSE IF "toppings" \in DOMAIN s.density THEN s.density["toppings"]
    ELSE "normal"

RECURSIVE VeggieSum(_, _, _)
VeggieSum(s, o, K) ==
    IF K = {} THEN 0
    ELSE LET k == CHOOSE k \in K : TRUE IN
         PriceOf(o.veggies, s.veggies[k]) * mult(ChargedLevel(s, s.veggies[k]))
         + VeggieSum(s, o, K \ {k})

ExampleSel == [InitialSel EXCEPT !.base = "thin", !.sauce = "tomato", !.cheese = "mozz"]

\* The builder's price assembled term by term.
AssembledPrice ==
    Usd(2) + PriceOf(opts[1].bases, sel.base)
    + PriceOf(opts[1].sauces, sel.sauce) * mult(Get(sel.density, "sauce"))
    + PriceOf(opts[1].cheeses, sel.cheese) * mult(Get(sel.density, "cheese"))
    + VeggieSum(sel, opts[1], DOMAIN sel.veggies)

\* C1 as stated: with a catalog loaded, the builder's price is 2 + price(base)
\* + price(sauce) x mult(density.sauce) + price(cheese) x mult(density.cheese)
\* + the sum over the selected veggies of price(veggie) x mult(level), level
\* being the veggie's override, else the global topping density, else normal;
\* catalog {base 100, sauce 20, cheese 30}, normal densities, no veggies: 182.
C1_AsStated ==
    Loaded =>
        /\ price = AssembledPrice
        /\ (opts = <<CatA>> /\ sel = ExampleSel) => price = Usd(182)

\* C1 amended: the same sum, and the example composition prices to
\* 2 + 100 + 20 x 2 + 30 x 2 = 202.
C1_PriceFormula ==
    Loaded =>
        /\ price = AssembledPrice
        /\ (opts = <<CatA>> /\ sel = ExampleSel) => price = Usd(202)

\* C1 witness: the example composition priced against the example catalog.
C1_Witness ==
    /\ opts = <<CatA>>
    /\ sel = ExampleSel
    /\ price = Usd(202)

\* The level strings a state's composition is charged at.
LevelsInUse ==
    {Get(sel.density, "sauce"), Get(sel.density, "cheese")}
    \cup {ChargedLevel(sel, sel.veggies[k]) : k \in DOMAIN sel.veggies}

\* C2 as stated: low and light give 1, extra gives 3, normal and every other
\* value (missing and unrecognized included) gives 2.
C2_MultAsStated ==
    \A v \in LevelsInUse :
        mult(v) = IF v \in {"low", "light"} THEN 1 ELSE IF v = "extra" THEN 3 ELSE 2

\* C2 amended: the level is compared without regard to letter case: any
\* spelling of low or light gives 1, any spelling of extra gives 3, and normal
\* and every other value (missing and unrecognized included) gives 2.
C2_MultCaseInsensitive ==
    \A v \in LevelsInUse :
        mult(v) = IF v \in {"low", "light", "LOW", "Low", "LIGHT"} THEN 1
                  ELSE IF v \in {"extra", "EXTRA", "Extra"} THEN 3
                  ELSE 2

\* C2 witness: sauce at the unrecognized level heavy is charged twice its
\* price, and a composition with no sauce density at all exists too.
C2_Witness ==
    /\ opts = <<CatA>>
    /\ sel.sauce = "tomato" /\ sel.base = "" /\ sel.cheese = "" /\ sel.veggies = <<>>
    /\ Get(sel.density, "sauce") = "heavy"
    /\ price = Usd(2) + 2 * Usd(20)

\* C3: selecting a veggie that was not selected raises the price by exactly
\* its price x mult(its level) and moving a selected veggie to level L changes
\* the price by price x (mult(L) - mult(old level)); so a veggie of price 10
\* added and set to extra raises the price by exactly 30.
C3_AddVeggieDelta ==
    [][ /\ \A i \in 1..2 :
            (ToggleVeg(i) /\ opts[1].veggies[i].id \notin Range(sel.veggies)) =>
                LET id == opts[1].veggies[i].id IN
                /\ id \in Range(sel'.veggies)
                /\ price' = price + PriceOf(opts[1].veggies, id)
                                    * mult(ChargedLevel(sel', id))
        /\ \A k \in 1..2, L \in LevelOptions :
            SetToppingLevel(k, L) =>
                LET id == sel.veggies[k] IN
                price' = price + PriceOf(opts[1].veggies, id)
                                 * (mult(L) - mult(ChargedLevel(sel, id)))
      ]_vars

\* C3 witness: the veggie priced 10 is selected at extra and the price is 30
\* above the price of the same composition without it.
C3_Witness ==
    /\ opts = <<CatA>>
    /\ sel.veggies = <<"olive">>
    /\ Get(sel.toppingLevels, "olive") = "extra"
    /\ price = Usd(30) + pricingEffect(
                   [sel EXCEPT !.veggies = <<>>, !.toppingLevels = EmptyLevels], opts, 0)

\* C4: in the admin table a row is disabled exactly when its stock is below
\* its threshold; with stock equal to threshold it is enabled.
C4_DisabledIffBelow ==
    vEdit # <<>> =>
        \A key \in InventoryKeys : \A i \in DOMAIN vEdit[1][key] :
            LET r == vEdit[1][key][i] IN
            /\ catTableDisabled(r) <=> r.stock < r.threshold
            /\ r.stock = r.threshold => badge(r) = "Enabled"

\* C4 witness: a row edited to stock = threshold > 0 beside a row whose stock
\* is below its threshold.
C4_Witness ==
    /\ vEdit # <<>>
    /\ \E i \in DOMAIN vEdit[1]["veggies"] :
          LET r == vEdit[1]["veggies"][i] IN
          r.stock = MaxStock /\ r.threshold = MaxStock /\ ~catTableDisabled(r)
    /\ \E i \in DOMAIN vEdit[1]["bases"] :
          LET r == vEdit[1]["bases"][i] IN
          r.stock = 0 /\ r.threshold > 0 /\ catTableDisabled(r)

\* C5: every custom line of the cart has a base, a sauce and a cheese.
C5_CustomLinesComplete ==
    \A i \in DOMAIN cart :
        ~isMenuLine(cart[i]) =>
            /\ cart[i].custom.base # ""
            /\ cart[i].custom.sauce # ""
            /\ cart[i].custom.cheese # ""

\* C5 witness: the cart holds a custom line while the builder shows a priced
\* composition that still lacks its cheese.
C5_Witness ==
    /\ \E i \in DOMAIN cart : ~isMenuLine(cart[i])
    /\ Loaded /\ sel.base # "" /\ sel.sauce # "" /\ sel.cheese = ""
    /\ price > Usd(2)

\* Some selected variant is disabled in the catalog.
AnySelectedDisabled(s, o) ==
    LET DisabledIds(arr) == {arr[i].id : i \in {j \in DOMAIN arr : arr[j].disabled}}
    IN \/ s.base \in DisabledIds(o.bases)
       \/ s.sauce \in DisabledIds(o.sauces)
       \/ s.cheese \in DisabledIds(o.cheeses)
       \/ Range(s.veggies) \cap DisabledIds(o.veggies) # {}

\* C6: no add-to-cart step is taken from a composition whose base, sauce,
\* cheese or one of whose veggies is disabled in the loaded catalog.
C6_DisabledRefused ==
    [][AddCustomClick => ~AnySelectedDisabled(sel, opts[1])]_vars

\* C6 witness: all three slots are filled with enabled variants, the price is
\* computed, and one selected veggie is disabled.
C6_Witness ==
    /\ opts = <<CatA>>
    /\ sel.base = "thin" /\ sel.sauce = "tomato" /\ sel.cheese = "mozz"
    /\ "corn" \in Range(sel.veggies)
    /\ price >= Usd(202)
    /\ cart = <<>>

\* C7 as stated: add(p) completes normally on every reachable cart and either
\* raises the quantity of the line of p's id by 1, adding no line, or, when
\* there is no such line, appends one line for p with quantity 1.
C7_AddCompletes ==
    [][\A p \in Pizzas :
        AddToCart(p) =>
            /\ ~crashed'
            /\ LET at == {i \in DOMAIN cart :
                            isMenuLine(cart[i]) /\ cart[i].pizza._id = p._id}
               IN IF at = {}
                  THEN cart' = Append(cart, [pizza |-> p, quantity |-> 1])
                  ELSE /\ Len(cart') = Len(cart)
                       /\ \A i \in DOMAIN cart :
                            cart'[i] = IF i \in at
                                       THEN [cart[i] EXCEPT !.quantity = @ + 1]
                                       ELSE cart[i]
      ]_vars

\* C8: an add-to-cart step of the builder leaves the lines already in the
\* cart as they are and puts one new line, with the builder's composition
\* and price and quantity 1, after them.
C8_AddCustomAppends ==
    [][AddCustomClick =>
        /\ Len(cart') = Len(cart) + 1
        /\ SubSeq(cart', 1, Len(cart)) = cart
        /\ cart'[Len(cart')] = [custom |-> sel, price |-> price, quantity |-> 1]
      ]_vars

\* C8 witness: two custom lines of the same composition and price, each with
\* quantity 1.
C8_Witness ==
    /\ Len(cart) = 2
    /\ ~isMenuLine(cart[1]) /\ ~isMenuLine(cart[2])
    /\ cart[1] = cart[2]
    /\ cart[1].quantity = 1

\* The cart without the line at 0-based index idx.
Dropped(c, idx) == SubSeq(c, 1, idx) \o SubSeq(c, idx + 2, Len(c))

\* Base-currency unit price of a line.
UnitUsd(it) == IF isMenuLine(it) THEN it.pizza.price ELSE it.price

\* C9: decrement on a line of quantity 1 removes the line and the total drops
\* by that line's unit price; on a line of quantity q > 1 the line stays with
\* quantity q - 1; no line of the cart ever has quantity 0.
C9_Decrement ==
    /\ [](\A i \in DOMAIN cart : cart[i].quantity >= 1)
    /\ [][\A idx \in 0..(Len(cart) - 1) :
            DecItem(idx) =>
                IF cart[idx + 1].quantity = 1
                THEN /\ cart' = Dropped(cart, idx)
                     /\ cartTotalRupees' = cartTotalRupees
                            - UnitUsd(cart[idx + 1]) * USD_TO_INR * MARKET_ADJ
                ELSE cart' = [cart EXCEPT ![idx + 1].quantity = @ - 1]
        ]_vars

\* C9 witness: a line of quantity 1 beside a line of quantity above 1.
C9_Witness ==
    /\ \E i \in DOMAIN cart : cart[i].quantity = 1
    /\ \E i \in DOMAIN cart : cart[i].quantity > 1

RECURSIVE SumLines(_, _)
SumLines(c, I) ==
    IF I = {} THEN 0
    ELSE LET i == CHOOSE i \in I : TRUE IN
         (UnitUsd(c[i]) * USD_TO_INR * MARKET_ADJ) * c[i].quantity
         + SumLines(c, I \ {i})

\* C10: the cart total is the sum over the lines of unit price x quantity,
\* the unit price being the menu pizza's price or the stored computed price,
\* converted by the one factor USD_TO_INR x MARKET_ADJ.
C10_CartTotal ==
    cartTotalRupees = SumLines(cart, DOMAIN cart)

\* C10 witness: a menu line and a custom line, one of them with quantity 2.
C10_Witness ==
    /\ \E i \in DOMAIN cart : isMenuLine(cart[i])
    /\ \E i \in DOMAIN cart : ~isMenuLine(cart[i]) /\ cart[i].quantity = 2
    /\ cartTotalRupees > 0


SameReading(v) == toLowerCase(v) \in {"low", "light", "extra"} => v = toLowerCase(v)

C13_PostedEqualsDisplayed ==
    [][PayNowClick =>
        pays'[Len(pays')].req[1].amount
            = formatINRfromRupees(cartTotalRupees) * 100000
      ]_vars

\* A step of the cart's own buttons.
UserCartEdit ==
    \E idx \in 0..Len(cart) : IncItem(idx) \/ DecItem(idx) \/ RemoveItem(idx)

\* The failure was put before the user: the modal's result is the error
\* status, or an alert was raised.
FailureSurfaced == payResult'.status = "error" \/ alerted' # ""

C15_LogoutClearsCart ==
    [][OnLogout => cart' = <<>>]_vars


\* The availability rule applied to the server's current inventory.
CurrentlyDisabled(k, id) ==
    \E n \in DOMAIN inv[k] :
        inv[k][n].id = id /\ inv[k][n].stock < inv[k][n].threshold

\* C16 as stated: the builder selects a veggie, and adds a composition to
\* the cart, only if the variants concerned are not disabled in the catalog
\* as it stands at that moment, whatever the catalog was when the builder
\* loaded it.
C16_GatingIsFresh ==
    [][ /\ \A i \in 1..2 :
              (ToggleVeg(i) /\ Len(sel'.veggies) > Len(sel.veggies)) =>
                  ~CurrentlyDisabled("veggies", opts[1].veggies[i].id)
        /\ AddCustomClick =>
              /\ ~CurrentlyDisabled("bases", sel.base)
              /\ ~CurrentlyDisabled("sauces", sel.sauce)
              /\ ~CurrentlyDisabled("cheeses", sel.cheese)
              /\ \A n \in DOMAIN sel.veggies :
                    ~CurrentlyDisabled("veggies", sel.veggies[n])
      ]_vars


C18_DeliveredIsTerminal ==
    [][\A o \in DOMAIN orders :
          orders[o] = "delivered" => orders'[o] = "delivered"]_vars


\* The composition with every id the catalog does not hold taken out.
Matched(arr, id) == \E i \in DOMAIN arr : arr[i].id = id

OnlyMatched(s, o) ==
    [s EXCEPT !.base = IF Matched(o.bases, s.base) THEN s.base ELSE "",
              !.sauce = IF Matched(o.sauces, s.sauce) THEN s.sauce ELSE "",
              !.cheese = IF Matched(o.cheeses, s.cheese) THEN s.cheese ELSE "",
              !.veggies = SelectSeq(s.veggies, LAMBDA id : Matched(o.veggies, id))]

NothingMatched(s, o) ==
    /\ ~Matched(o.bases, s.base) /\ ~Matched(o.sauces, s.sauce)
    /\ ~Matched(o.cheeses, s.cheese)
    /\ \A i \in DOMAIN s.veggies : ~Matched(o.veggies, s.veggies[i])

\* C19: for every composition and catalog the price is computed: it is a
\* number, not below the build fee of 2, and equal to the price of the same
\* composition without the ids that match no catalog variant (each of them
\* contributes 0, so a composition none of whose ids match costs the fee
\* alone), also with empty slots and missing density settings.
C19_PricingTotal ==
    Loaded =>
        /\ price \in Nat
        /\ price >= Usd(2)
        /\ price = pricingEffect(OnlyMatched(sel, opts[1]), opts, 0)
        /\ NothingMatched(sel, opts[1]) => price = Usd(2)

\* C19 witness: a base id and two veggie ids the catalog does not hold, no
\* sauce, no cheese and no sauce or topping density: the price is the fee.
C19_Witness ==
    /\ opts = <<CatC>>
    /\ sel.base = "ghost" /\ sel.sauce = "" /\ sel.cheese = ""
    /\ sel.veggies = <<"olive", "corn">>
    /\ DOMAIN sel.density = {"cheese"}
    /\ price = Usd(2)

\* The catalog list each required slot is chosen from.
SlotList == [base |-> "bases", sauce |-> "sauces", cheese |-> "cheeses"]

\* C20 as stated: when the composition is not valid the add-to-cart step is
\* refused and what the builder shows names every required slot that is
\* missing and every selected variant that is disabled.
C20_RefusalNamesCause ==
    (Loaded /\ ~canAdd(sel, opts[1])) =>
        /\ ~ENABLED AddCustomClick
        /\ \A slot \in {"base", "sauce", "cheese"} :
              sel[slot] = "" =>
                  [kind |-> "missing", name |-> slot] \in refusalSignals(sel, opts[1])
        /\ \A slot \in {"base", "sauce", "cheese"} :
              (sel[slot] # "" /\ findDisabled(opts[1][SlotList[slot]], sel[slot]))
              => [kind |-> "out", name |-> sel[slot]] \in refusalSignals(sel, opts[1])
        /\ \A i \in DOMAIN sel.veggies :
              findDisabled(opts[1].veggies, sel.veggies[i])
              => [kind |-> "out", name |-> sel.veggies[i]] \in refusalSignals(sel, opts[1])


\* C21: every line of the cart has an integer quantity of at least 1, after
\* any sequence of add, addCustom, increment, decrement and remove steps.
C21_QuantityPositive ==
    \A i \in DOMAIN cart : cart[i].quantity \in Nat /\ cart[i].quantity >= 1

\* C21 witness: a menu line followed by a custom line, both incremented to
\* quantity 2, so that a decrement leaves each of them in place.
C21_Witness ==
    /\ Len(cart) = 2
    /\ isMenuLine(cart[1]) /\ ~isMenuLine(cart[2])
    /\ cart[1].quantity = 2 /\ cart[2].quantity = 2
    /\ ~crashed


\* pays without its i-th invocation.
PaysWithout(i) == SubSeq(pays, 1, i - 1) \o SubSeq(pays, i + 1, Len(pays))

C23_CreationFailureEndsAttempt ==
    [][\A i \in DOMAIN pays, sdk \in BOOLEAN :
          \A resp \in {r \in CheckoutResponses : r.throws} :
             CheckoutResponds(i, resp, sdk) =>
                /\ pays' = PaysWithout(i)
                /\ cart' = cart
                /\ payResult' = payResult
                /\ alerted' # ""
                /\ placing' = FALSE
      ]_vars

\* C23 witness: the failure alert is open over the address form; no attempt
\* is in progress, the cart still has its lines and no order exists.
C23_Witness ==
    /\ alerted = "Could not start payment. Check console for details."
    /\ pays = <<>> /\ ~placing
    /\ showCheckout /\ payResult = IdleResult
    /\ cart # <<>> /\ orders = <<>>


\* C24: every error named ValidationError is answered with status 400, never
\* with a 5xx status, whatever statusCode it carries; every other error is
\* answered with its own statusCode when it carries one, with 500 otherwise.
C24_ValidationIs400 ==
    \A k \in DOMAIN sent :
        LET err == sent[k].err
            res == sent[k].res
        IN /\ err.name = "ValidationError" => res.status = 400
           /\ err.name # "ValidationError" =>
                 res.status = (IF err.statusCode # 0 THEN err.statusCode ELSE 500)

\* C24 witness: a ValidationError carrying statusCode 500 was answered, and
\* an error of another name carrying no statusCode.
C24_Witness ==
    /\ \E k \in DOMAIN sent :
          sent[k].err.name = "ValidationError" /\ sent[k].err.statusCode = 500
    /\ \E k \in DOMAIN sent :
          sent[k].err.name = "Error" /\ sent[k].err.statusCode = 0
          /\ sent[k].res.status = 500

\* C30: the server listens only with the database connection established;
\* after a failed connection attempt it never listens and the process exits,
\* with code 1.
C30_ListenAfterConnect ==
    /\ [](proc = "listening" => db = "connected")
    /\ [](db = "failed" => proc # "listening")
    /\ [](proc = "exited" => exitCode = 1)
    /\ (db = "failed") ~> (proc = "exited" /\ exitCode = 1)

\* C30 witness: the connection attempt has failed and the process has exited
\* without having listened.
C30_Witness ==
    db = "failed" /\ proc = "exited" /\ exitCode = 1 /\ sent = <<>>


\* C25 as stated: at most one payNow invocation is in progress at any time,
\* so that no order-creation request is issued while another attempt runs.
C25_SingleInFlight ==
    Len(pays) <= 1


\* C26 as stated: an order-creation request is sent only while a user is
\* logged in, the cart is not empty and every field of the address passes
\* its validator.
C26_RequestOnlyWhenEntitled ==
    [][PayNowClick =>
          /\ user
          /\ Len(cart) > 0
          /\ \A k \in DOMAIN AddrFields : validators(AddrFields[k], addr[AddrFields[k]])
      ]_vars


\* C27: the line an add-to-cart step of the builder stores holds the
\* builder's composition and the price of that composition under the catalog
\* the builder holds at that step; a selection edit in the builder changes no
\* line of the cart; and every custom line of the cart keeps the composition
\* and price it was stored with.
C27_StoredPriceIsComputed ==
    [][/\ AddCustomClick =>
             LET ln == cart'[Len(cart')] IN
             /\ ln.custom = sel
             /\ ln.price = pricingEffect(ln.custom, opts, 0)
       /\ (Loaded /\ opts' = opts /\ sel' # sel) => cart' = cart
       /\ \A j \in DOMAIN cart' :
             ~isMenuLine(cart'[j]) =>
                \/ \E i \in DOMAIN cart :
                      /\ ~isMenuLine(cart[i])
                      /\ cart[i].custom = cart'[j].custom
                      /\ cart[i].price = cart'[j].price
                \/ AddCustomClick /\ j = Len(cart')
      ]_vars

\* C27 witness: the cart holds a custom line priced under one catalog while
\* the builder, loaded with a catalog that prices it differently, shows an
\* edited selection with another price.
C27_Witness ==
    /\ Loaded /\ opts = <<filtered(AppCatB)>>
    /\ \E i \in DOMAIN cart :
          /\ ~isMenuLine(cart[i])
          /\ cart[i].price = pricingEffect(cart[i].custom, <<filtered(AppCatA)>>, 0)
          /\ cart[i].price # pricingEffect(cart[i].custom, opts, 0)
          /\ sel # cart[i].custom /\ sel.base # "" /\ price # cart[i].price


\* C28: the selected veggies hold no id twice and no veggie that is disabled
\* in the loaded catalog, and the ids with a per-veggie level are exactly the
\* selected veggies; selecting a veggie gives it the level normal,
\* deselecting it removes its level.
C28_VeggieSelectionConsistent ==
    /\ [](/\ \A i, j \in DOMAIN sel.veggies :
                sel.veggies[i] = sel.veggies[j] => i = j
          /\ Loaded => \A i \in DOMAIN sel.veggies :
                          ~findDisabled(opts[1].veggies, sel.veggies[i])
          /\ DOMAIN sel.toppingLevels = Range(sel.veggies))
    /\ [][\A i \in 1..2 :
             ToggleVeg(i) =>
                LET id == opts[1].veggies[i].id IN
                IF id \in Range(sel.veggies)
                THEN id \notin Range(sel'.veggies)
                     /\ id \notin DOMAIN sel'.toppingLevels
                ELSE id \in Range(sel'.veggies)
                     /\ sel'.toppingLevels[id] = "normal"
         ]_vars

\* C28 witness: both veggies of the catalog selected, the second one first,
\* with levels changed by the per-veggie buttons.
C28_Witness ==
    /\ opts = <<CatB>>
    /\ sel.veggies = <<"corn", "olive">>
    /\ sel.toppingLevels["corn"] = "extra" /\ sel.toppingLevels["olive"] = "low"


\* C29: increment, decrement and remove at index idx leave every other line
\* as it is and in its place relative to the others: the cart afterwards is
\* the cart before with the line at idx kept, changed in its quantity only,
\* or taken out; for an idx that is no index of the cart it is the cart
\* before.
C29_OnlyLineIdxChanges ==
    [][\A idx \in 0..Len(cart) :
          (IncItem(idx) \/ DecItem(idx) \/ RemoveItem(idx)) =>
             IF idx + 1 \notin DOMAIN cart
             THEN cart' = cart
             ELSE \/ cart' = Dropped(cart, idx)
                  \/ /\ Len(cart') = Len(cart)
                     /\ Dropped(cart', idx) = Dropped(cart, idx)
                     /\ [cart'[idx + 1] EXCEPT !.quantity = 0]
                           = [cart[idx + 1] EXCEPT !.quantity = 0]
      ]_vars

\* C29 witness: three different lines, the first of them incremented.
C29_Witness ==
    /\ Len(cart) = 3
    /\ isMenuLine(cart[1]) /\ isMenuLine(cart[2]) /\ ~isMenuLine(cart[3])
    /\ cart[1].pizza._id = "p2" /\ cart[2].pizza._id = "p1"
    /\ cart[1].quantity = 2 /\ cart[2].quantity = 1 /\ cart[3].quantity = 1

=============================================================================
